---- MODULE Spec2Model ----
(***************************************************************************)
(* A model of the fastapi-template backend: password hashing and JWT       *)
(* tokens (app/core/security.py), the generic repository                   *)
(* (app/repositories), the user and item services (app/services), the      *)
(* authorization dependencies (app/api/dependencies.py) and the endpoints  *)
(* (app/api/v1/endpoints).                                                 *)
(*                                                                         *)
(* One action is one HTTP request, served from dependency resolution to    *)
(* the response, against the committed database.  The database tables are  *)
(* functions from primary key to row.  req, resp and pre hold the request  *)
(* that is being answered, its response and the database it was served     *)
(* against, until the response has gone out (Respond).                     *)
(*                                                                         *)
(* Python values: None is the string "None"; a request body is a function  *)
(* from the names of the fields that are present in it to their values,    *)
(* so that a field that is absent and a field that is null are different.  *)
(* Request bodies range over the bodies that pass pydantic's request       *)
(* validation and that put no null in a column the data model calls        *)
(* required.                                                               *)
(***************************************************************************)
EXTENDS Integers, Sequences, FiniteSets, TLC

VARIABLES
    users,      \* table users: id -> row
    items,      \* table items: id -> row
    seq,        \* the tables' primary key sequences
    now,        \* the clock, in ticks
    tokens,     \* the access tokens the clients hold
    req,        \* the request being answered
    resp,       \* its response
    pre,        \* the tables and the clock it was served against
    requests,   \* RateLimitMiddleware.requests: address -> times admitted
    handled,    \* per address, the arrival times of the requests passed on
    refused,    \* per address, when it was last answered 429 (-1: never)
    inflight    \* a request that waits at an await, its checks passed

vars == <<users, items, seq, now, tokens, req, resp, pre, requests, handled, refused, inflight>>

None == "None"

(***************************************************************************)
(* Bounds of the model.                                                    *)
(***************************************************************************)
TicksPerSecond == 2     \* resolution of the clock
MaxExtraTicks == 4      \* how far the clock runs beyond one default lifetime
MaxDelta == 3           \* the longest lifetime asked of create_access_token, in ticks
MaxFields == 2          \* the fields present in the body of an update
MaxTokens == 2          \* tokens kept by the clients at a time
MaxRows == 4            \* cap of the primary key sequences
MaxRequests == 2        \* max_requests given to RateLimitMiddleware
WindowSeconds == 1      \* window_seconds given to RateLimitMiddleware

(***************************************************************************)
(* app/core/config.py                                                      *)
(***************************************************************************)
ACCESS_TOKEN_EXPIRE_MINUTES == 30

(***************************************************************************)
(* app/core/security.py: passwords.  bcrypt computes the digest from a     *)
(* random salt and the password and stores the salt with the digest;       *)
(* verification recomputes the digest from the stored salt.                *)
(***************************************************************************)
Salts == {"s1", "s2"}

get_password_hash(password, salt) ==
    [scheme |-> "bcrypt", salt |-> salt, digest |-> <<salt, password>>]

verify_password(plain_password, hashed_password) ==
    hashed_password.digest = <<hashed_password.salt, plain_password>>

(***************************************************************************)
(* app/core/security.py: tokens.  A subject is an int or a str:            *)
(* [t |-> "int", i |-> n] or [t |-> "str", s |-> "..."].  jose turns the   *)
(* datetime of the exp claim into whole seconds (timegm of utctimetuple)   *)
(* and rejects a token whose exp is less than the current whole second.    *)
(***************************************************************************)
IntSubject(n) == [t |-> "int", i |-> n, s |-> ""]
StrSubject(s) == [t |-> "str", i |-> 0, s |-> s]

\* str(subject)
str(subject) == IF subject.t = "int" THEN ToString(subject.i) ELSE subject.s

\* int(text): the integer a decimal literal denotes, ValueError otherwise
IntLiterals == 0..9
int(text) ==
    IF \E n \in IntLiterals : ToString(n) = text
    THEN [exc |-> "none", value |-> CHOOSE n \in IntLiterals : ToString(n) = text]
    ELSE [exc |-> "ValueError", value |-> 0]

\* timegm(d.utctimetuple()): the whole seconds of a time in ticks
timegm(t) == t \div TicksPerSecond

\* timedelta(minutes=m) in ticks
minutes(m) == m * 60 * TicksPerSecond

\* expires_delta: None, or a timedelta in ticks (a timedelta of zero is falsy)
NoDelta == [given |-> FALSE, ticks |-> 0]
Delta(d) == [given |-> TRUE, ticks |-> d]

create_access_token(subject, expires_delta, t) ==
    LET expire == IF expires_delta.given /\ expires_delta.ticks # 0
                  THEN t + expires_delta.ticks
                  ELSE t + minutes(ACCESS_TOKEN_EXPIRE_MINUTES)
    IN  [scheme |-> "Bearer", wellformed |-> TRUE, signed |-> TRUE,
         sub |-> str(subject), exp |-> timegm(expire)]

\* The result of decode_access_token: a user id, or None.
Invalid == [valid |-> FALSE, user_id |-> 0]
Subject(n) == [valid |-> TRUE, user_id |-> n]

decode_access_token(token, t) ==
    IF ~token.wellformed \/ ~token.signed THEN Invalid      \* JWTError
    ELSE IF token.exp < timegm(t) THEN Invalid              \* ExpiredSignatureError
    ELSE IF int(token.sub).exc = "ValueError" THEN Invalid  \* ValueError
    ELSE Subject(int(token.sub).value)

(***************************************************************************)
(* app/schemas/__init__.py.  An instance of a schema is the function from  *)
(* the fields that were set at construction to their values; fields the    *)
(* schema does not declare are ignored (pydantic's default extra="ignore") *)
(* and a required field that is missing raises ValidationError, which is   *)
(* a ValueError.  Every optional field of these schemas defaults to None.  *)
(***************************************************************************)
Restrict(f, S) == [k \in (DOMAIN f) \cap S |-> f[k]]

UserCreateFields == {"email", "username", "full_name", "password"}
UserCreateRequired == {"email", "username", "password"}
UserUpdateFields == {"email", "username", "full_name", "password", "is_active"}
UserFields == {"id", "email", "username", "full_name", "is_active", "is_superuser"}
ItemCreateFields == {"title", "description"}
ItemCreateRequired == {"title"}
ItemUpdateFields == {"title", "description", "is_active"}
ItemFields == {"id", "title", "description", "owner_id", "is_active"}

\* Schema(**kwargs)
Construct(kwargs, fields, required) ==
    IF required \subseteq DOMAIN kwargs
    THEN [exc |-> "none", value |-> Restrict(kwargs, fields)]
    ELSE [exc |-> "ValidationError", value |-> Restrict(kwargs, fields)]

UserCreate(kwargs) == Construct(kwargs, UserCreateFields, UserCreateRequired)
\* UserUpdate with a field is_superuser
UserUpdate_with_is_superuser(kwargs) ==
    Construct(kwargs, UserUpdateFields \cup {"is_superuser"}, {})
UserUpdate(kwargs) == Construct(kwargs, UserUpdateFields, {})
ItemCreate(kwargs) == Construct(kwargs, ItemCreateFields, ItemCreateRequired)
\* ItemUpdate with a field owner_id
ItemUpdate_with_owner_id(kwargs) ==
    Construct(kwargs, ItemUpdateFields \cup {"owner_id"}, {})
ItemUpdate(kwargs) == Construct(kwargs, ItemUpdateFields, {})

\* obj.model_dump(): every declared field, the unset ones at their default
model_dump(obj, fields) ==
    [k \in fields |-> IF k \in DOMAIN obj THEN obj[k] ELSE None]

\* obj.model_dump(exclude_unset=True): the fields that were set
model_dump_exclude_unset(obj) == obj

\* User.model_validate(row), Item.model_validate(row): the public projection
User(row) == Restrict(row, UserFields)
Item(row) == Restrict(row, ItemFields)

\* d.pop(key) and d[key] = value on a dict
Pop(d, key) == [k \in (DOMAIN d) \ {key} |-> d[k]]
Put(d, key, value) == [k \in (DOMAIN d) \cup {key} |-> IF k = key THEN value ELSE d[k]]

\* isinstance(exc, ValueError): pydantic's ValidationError derives from it
IsValueError(exc) == exc \in {"ValueError", "ValidationError"}

(***************************************************************************)
(* The mapped classes of app.models, after the data model of the           *)
(* specification: the columns, those that hold text, those that are        *)
(* required, those that are unique, and the column defaults.               *)
(***************************************************************************)
UserModel ==
    [columns  |-> {"id", "email", "username", "full_name", "hashed_password",
                   "is_active", "is_superuser"},
     text     |-> {"email", "username", "full_name"},
     not_null |-> {"id", "email", "username", "hashed_password", "is_active",
                   "is_superuser"},
     unique   |-> {"email", "username"},
     defaults |-> [full_name |-> None, is_active |-> TRUE, is_superuser |-> FALSE]]

ItemModel ==
    [columns  |-> {"id", "title", "description", "owner_id", "is_active"},
     text     |-> {"title", "description"},
     not_null |-> {"id", "title", "owner_id", "is_active"},
     unique   |-> {},
     defaults |-> [description |-> None, is_active |-> TRUE]]

\* a column of a pending row is NULL
IsNull(model, row, c) ==
    c \notin DOMAIN row \/ (c \in model.text /\ row[c] = None)

\* The constraints of a table: what a flush of `row` into `table` checks.
\* owners is the set of user ids, the target of items.owner_id.
IntegrityOk(model, table, row, owners) ==
    /\ \A c \in model.not_null : ~IsNull(model, row, c)
    /\ \A c \in model.unique : \A i \in DOMAIN table :
           i # row.id => table[i][c] # row[c]
    /\ "owner_id" \in model.columns => row.owner_id \in owners

\* the row a flush writes: the attributes given, the defaults elsewhere
WithDefaults(model, attrs) ==
    [c \in (DOMAIN attrs) \cup (DOMAIN model.defaults) |->
        IF c \in DOMAIN attrs THEN attrs[c] ELSE model.defaults[c]]

(***************************************************************************)
(* app/repositories/base_repository.py, over one table.  Each operation    *)
(* returns the exception it raised ("none" for none) and the table as the  *)
(* session then sees it; nothing is committed here.                        *)
(***************************************************************************)
Exists(table, id) == id \in DOMAIN table

\* the ids of a table in storage order
RECURSIVE SortedIds(_)
SortedIds(S) ==
    IF S = {} THEN <<>>
    ELSE LET m == CHOOSE x \in S : \A y \in S : x <= y
         IN  <<m>> \o SortedIds(S \ {m})

\* s[skip : skip + limit]
Slice(s, skip, limit) ==
    SubSeq(s, skip + 1, IF skip + limit < Len(s) THEN skip + limit ELSE Len(s))

\* s[start:stop] of a Python list: a negative index counts from the end,
\* and both indexes are clipped to the list
SliceIndex(k, n) ==
    IF k < 0 THEN (IF k + n < 0 THEN 0 ELSE k + n) ELSE (IF k > n THEN n ELSE k)
PySlice(s, start, stop) ==
    SubSeq(s, SliceIndex(start, Len(s)) + 1, SliceIndex(stop, Len(s)))

get_multi(table, skip, limit) ==
    LET ids == Slice(SortedIds(DOMAIN table), skip, limit)
    IN  [k \in 1..Len(ids) |-> table[ids[k]]]

Repository_create(model, table, id, obj_in, owners) ==
    IF ~((DOMAIN obj_in) \subseteq model.columns)
    THEN [exc |-> "TypeError", table |-> table, id |-> id]
    ELSE LET row == WithDefaults(model, Put(obj_in, "id", id))
         IN  IF IntegrityOk(model, table, row, owners)
             THEN [exc |-> "none", id |-> id,
                   table |-> [i \in (DOMAIN table) \cup {id} |->
                                 IF i = id THEN row ELSE table[i]]]
             ELSE [exc |-> "IntegrityError", table |-> table, id |-> id]

\* an update that takes a field given as None for a field not given
Patch_skips_none(row, update_data) ==
    [c \in DOMAIN row |->
        IF c \in DOMAIN update_data
           /\ ~(c \in {"full_name", "description"} /\ update_data[c] = None)
        THEN update_data[c] ELSE row[c]]

\* setattr(db_obj, field, value) for every field of the update: an
\* attribute that is no column changes nothing in the table
Patch(row, update_data) ==
    [c \in DOMAIN row |-> IF c \in DOMAIN update_data THEN update_data[c] ELSE row[c]]

Repository_update(model, table, id, obj_in, owners) ==
    LET update_data == model_dump_exclude_unset(obj_in)
        row == Patch(table[id], update_data)
    IN  IF IntegrityOk(model, table, row, owners)
        THEN [exc |-> "none", table |-> [table EXCEPT ![id] = row]]
        ELSE [exc |-> "IntegrityError", table |-> table]

\* delete that finds the row and does not remove it
Repository_delete_not_removed(table, id) ==
    [deleted |-> Exists(table, id), table |-> table]

Repository_delete(table, id) ==
    IF Exists(table, id)
    THEN [deleted |-> TRUE, table |-> [i \in (DOMAIN table) \ {id} |-> table[i]]]
    ELSE [deleted |-> FALSE, table |-> table]

(***************************************************************************)
(* app/repositories/user_repository.py, item_repository.py                 *)
(***************************************************************************)
get_by_email(table, email) == {i \in DOMAIN table : table[i].email = email}
\* the lookup comparing the wrong column
get_by_username_wrong_column(table, username) ==
    {i \in DOMAIN table : table[i].email = username}
get_by_username(table, username) == {i \in DOMAIN table : table[i].username = username}

get_by_owner(table, owner_id) ==
    LET ids == SortedIds({i \in DOMAIN table : table[i].owner_id = owner_id})
    IN  [k \in 1..Len(ids) |-> table[ids[k]]]

(***************************************************************************)
(* app/services/user_service.py.  Each operation returns the exception it  *)
(* raised ("none" for none), the table as the session then sees it and     *)
(* its result.                                                             *)
(***************************************************************************)
NoRow == [id |-> 0]

\* create_user from "Hash password and create user" on, the two lookups
\* behind it
UserService_create_user_store(table, id, user_in, salt) ==
    LET dumped == model_dump(user_in, UserCreateFields)
        user_dict == Put(Pop(dumped, "password"), "hashed_password",
                         get_password_hash(dumped.password, salt))
        obj_in == UserCreate(user_dict)
    IN  IF obj_in.exc # "none"
        THEN [exc |-> obj_in.exc, detail |-> "1 validation error for UserCreate",
              table |-> table, user |-> NoRow]
        ELSE
          LET created == Repository_create(UserModel, table, id,
                             model_dump(obj_in.value, UserCreateFields), {})
          IN  [exc |-> created.exc, detail |-> "",
               table |-> created.table,
               user |-> IF created.exc = "none"
                        THEN User(created.table[id]) ELSE NoRow]

UserService_create_user(table, id, user_in, salt) ==
    IF get_by_email(table, user_in.email) # {}
    THEN [exc |-> "ValueError", detail |-> "Email already registered",
          table |-> table, user |-> NoRow]
    ELSE IF get_by_username(table, user_in.username) # {}
    THEN [exc |-> "ValueError", detail |-> "Username already taken",
          table |-> table, user |-> NoRow]
    ELSE UserService_create_user_store(table, id, user_in, salt)

\* authenticate without the password check
authenticate_unverified(table, username, password) ==
    get_by_username(table, username)

\* the users authenticate() returns for a username and a password: the set
\* holding that user's id, or the empty set for None
UserService_authenticate(table, username, password) ==
    {i \in get_by_username(table, username) :
        verify_password(password, table[i].hashed_password)}

\* if user_in.password: a password that is set, not None and not empty
HasPassword(user_in) ==
    "password" \in DOMAIN user_in /\ user_in.password \notin {None, ""}

\* user_service.update_user for a user that exists
UserService_update_user(table, user_id, user_in, salt) ==
    LET user_dict == model_dump_exclude_unset(user_in)
        hashed == Put(Pop(user_dict, "password"), "hashed_password",
                      get_password_hash(user_dict.password, salt))
        obj_in == IF HasPassword(user_in) THEN UserUpdate(hashed).value ELSE user_in
        updated == Repository_update(UserModel, table, user_id, obj_in, {})
    IN  [exc |-> updated.exc, table |-> updated.table,
         user |-> IF updated.exc = "none" THEN User(updated.table[user_id]) ELSE NoRow]

(***************************************************************************)
(* app/services/item_service.py                                            *)
(***************************************************************************)
ItemService_create_item(table, id, item_in, owner_id, owners) ==
    LET item_dict == Put(model_dump(item_in, ItemCreateFields), "owner_id", owner_id)
        obj_in == ItemCreate(item_dict)
    IN  IF obj_in.exc # "none"
        THEN [exc |-> obj_in.exc, table |-> table, item |-> NoRow]
        ELSE
          LET created == Repository_create(ItemModel, table, id,
                             model_dump(obj_in.value, ItemCreateFields), owners)
          IN  [exc |-> created.exc, table |-> created.table,
               item |-> IF created.exc = "none"
                        THEN Item(created.table[id]) ELSE NoRow]

ItemService_get_user_items(table, owner_id, skip, limit) ==
    LET rows == PySlice(get_by_owner(table, owner_id), skip, skip + limit)
    IN  [k \in 1..Len(rows) |-> Item(rows[k])]

\* item_service.update_item for an item that exists
\* the service looks the item up itself and returns None (NoRow) without it
ItemService_update_item(table, item_id, item_in, owners) ==
    LET updated == Repository_update(ItemModel, table, item_id, item_in, owners)
    IN  IF ~Exists(table, item_id)
        THEN [exc |-> "none", table |-> table, item |-> NoRow]
        ELSE [exc |-> updated.exc, table |-> updated.table,
              item |-> IF updated.exc = "none"
                       THEN Item(updated.table[item_id]) ELSE NoRow]

(***************************************************************************)
(* app/api/errors.py, app/main.py: the response to an exception that no    *)
(* endpoint caught.                                                        *)
(***************************************************************************)
\* a response: its status code, the detail of its JSON content when it is an
\* error, the headers the application sets on it, and its body otherwise
Response(status, detail, body) ==
    [status |-> status, detail |-> detail, headers |-> {}, body |-> body]

\* HTTPException(..., headers=...)
WithHeaders(response, headers) == [response EXCEPT !.headers = headers]
WWWAuthenticateBearer == {<<"WWW-Authenticate", "Bearer">>}

\* the handlers without the one registered for IntegrityError
exception_handler_without_integrity(exc) ==
    IF exc \in {"IntegrityError", "SQLAlchemyError"}
    THEN Response(500, "Database error occurred", None)
    ELSE Response(500, "Internal server error", None)

exception_handler(exc) ==
    IF exc = "IntegrityError"
    THEN Response(400, "Database constraint violation", None)
    ELSE IF exc = "SQLAlchemyError"
    THEN Response(500, "Database error occurred", None)
    ELSE Response(500, "Internal server error", None)

(***************************************************************************)
(* app/middleware/__init__.py: RateLimitMiddleware, constructed with       *)
(* max_requests = MaxRequests and window_seconds = WindowSeconds.  The     *)
(* time is in ticks.  dispatch returns the dict as it leaves it and        *)
(* whether it answered 429 instead of calling call_next.                   *)
(***************************************************************************)
\* request.client.host, or "unknown" for a request without a client
Addresses == {"10.0.0.1", "unknown"}

\* dispatch that records the request before it tests the limit
RateLimit_dispatch_records_all(reqs, client_ip, current_time) ==
    LET known == IF client_ip \in DOMAIN reqs THEN reqs ELSE Put(reqs, client_ip, <<>>)
        InWindow(req_time) == current_time - req_time < WindowSeconds * TicksPerSecond
        kept == SelectSeq(known[client_ip], InWindow)
    IN  [limited |-> Len(kept) >= MaxRequests,
         requests |-> [known EXCEPT ![client_ip] = Append(kept, current_time)]]

\* dispatch that admits while the count is not above max_requests
RateLimit_dispatch_one_more(reqs, client_ip, current_time) ==
    LET known == IF client_ip \in DOMAIN reqs THEN reqs ELSE Put(reqs, client_ip, <<>>)
        InWindow(req_time) == current_time - req_time < WindowSeconds * TicksPerSecond
        kept == SelectSeq(known[client_ip], InWindow)
    IN  IF Len(kept) > MaxRequests
        THEN [limited |-> TRUE, requests |-> [known EXCEPT ![client_ip] = kept]]
        ELSE [limited |-> FALSE,
              requests |-> [known EXCEPT ![client_ip] = Append(kept, current_time)]]

RateLimit_dispatch(reqs, client_ip, current_time) ==
    LET known == IF client_ip \in DOMAIN reqs THEN reqs ELSE Put(reqs, client_ip, <<>>)
        InWindow(req_time) == current_time - req_time < WindowSeconds * TicksPerSecond
        kept == SelectSeq(known[client_ip], InWindow)
    IN  IF Len(kept) >= MaxRequests
        THEN [limited |-> TRUE, requests |-> [known EXCEPT ![client_ip] = kept]]
        ELSE [limited |-> FALSE,
              requests |-> [known EXCEPT ![client_ip] = Append(kept, current_time)]]

RateLimitExceeded ==
    WithHeaders(Response(429, "", "Rate limit exceeded"),
                {<<"Retry-After", ToString(WindowSeconds)>>})

(***************************************************************************)
(* app/api/dependencies.py.  The result is the response that refuses the   *)
(* request, or status 0 and the id of the current user.                    *)
(***************************************************************************)
NoCredentials ==
    [scheme |-> "none", wellformed |-> FALSE, signed |-> FALSE, sub |-> "", exp |-> 0]

Granted(user_id) == [status |-> 0, detail |-> "", headers |-> {}, user_id |-> user_id]
Refused(status, detail) ==
    [status |-> status, detail |-> detail, headers |-> {}, user_id |-> 0]

credentials_exception ==
    [Refused(401, "Could not validate credentials") EXCEPT !.headers = WWWAuthenticateBearer]

\* get_current_user without the is_active check
get_current_user_inactive_too(credentials, table, t) ==
    IF credentials.scheme # "Bearer" THEN Refused(403, "Not authenticated")
    ELSE LET user_id == decode_access_token(credentials, t)
         IN  IF ~user_id.valid
             THEN credentials_exception
             ELSE IF ~Exists(table, user_id.user_id)
             THEN credentials_exception
             ELSE Granted(user_id.user_id)

\* get_current_user behind HTTPBearer(auto_error=False): a request without
\* the header reaches the token check
get_current_user_auto_error_off(credentials, table, t) ==
    LET user_id == decode_access_token(credentials, t)
    IN  IF ~user_id.valid
        THEN credentials_exception
        ELSE IF ~Exists(table, user_id.user_id)
        THEN credentials_exception
        ELSE IF ~table[user_id.user_id].is_active
        THEN Refused(403, "Inactive user")
        ELSE Granted(user_id.user_id)

get_current_user(credentials, table, t) ==
    IF credentials.scheme # "Bearer" THEN Refused(403, "Not authenticated")
    ELSE LET user_id == decode_access_token(credentials, t)
         IN  IF ~user_id.valid
             THEN credentials_exception
             ELSE IF ~Exists(table, user_id.user_id)
             THEN credentials_exception
             ELSE IF ~table[user_id.user_id].is_active
             THEN Refused(403, "Inactive user")
             ELSE Granted(user_id.user_id)

get_current_active_user(credentials, table, t) ==
    get_current_user(credentials, table, t)

\* get_current_superuser without the is_superuser check
get_current_superuser_unchecked(credentials, table, t) ==
    get_current_user(credentials, table, t)

get_current_superuser(credentials, table, t) ==
    LET current_user == get_current_user(credentials, table, t)
    IN  IF current_user.status # 0 THEN current_user
        ELSE IF ~table[current_user.user_id].is_superuser
        THEN Refused(403, "Not enough privileges")
        ELSE current_user

(***************************************************************************)
(* The endpoints, as functions of the committed tables, the clock and the  *)
(* request.  Each returns its response and the tables it committed: an     *)
(* endpoint that raises before its commit leaves the tables as they were.  *)
(***************************************************************************)
Outcome(response, users2, items2) ==
    [response |-> response, users |-> users2, items |-> items2]

Refusal(gate, table, rows) ==
    Outcome(WithHeaders(Response(gate.status, gate.detail, None), gate.headers),
            table, rows)

\* the only element of a set of one
TheOne(S) == CHOOSE x \in S : TRUE

(***************************************************************************)
(* app/api/v1/endpoints/auth.py                                            *)
(***************************************************************************)
register(table, rows, id, user_in, salt) ==
    LET created == UserService_create_user(table, id, user_in, salt)
    IN  IF created.exc = "none"
        THEN Outcome(Response(201, "", created.user), created.table, rows)
        ELSE IF IsValueError(created.exc)
        THEN Outcome(Response(400, created.detail, None), table, rows)
        ELSE Outcome(exception_handler(created.exc), table, rows)

\* login telling a username nobody has from a wrong password
login_leaky(table, rows, t, username, password) ==
    LET user == UserService_authenticate(table, username, password)
    IN  IF get_by_username(table, username) = {}
        THEN Outcome(Response(404, "User not found", None), table, rows)
        ELSE IF user = {}
        THEN Outcome(WithHeaders(Response(401, "Incorrect username or password", None),
                                 WWWAuthenticateBearer), table, rows)
        ELSE IF ~table[TheOne(user)].is_active
        THEN Outcome(Response(403, "Inactive user", None), table, rows)
        ELSE Outcome(Response(200, "",
                 [access_token |-> create_access_token(IntSubject(TheOne(user)), NoDelta, t),
                  token_type |-> "bearer"]), table, rows)

login(table, rows, t, username, password) ==
    LET user == UserService_authenticate(table, username, password)
    IN  IF user = {}
        THEN Outcome(WithHeaders(Response(401, "Incorrect username or password", None),
                                 WWWAuthenticateBearer), table, rows)
        ELSE IF ~table[TheOne(user)].is_active
        THEN Outcome(Response(403, "Inactive user", None), table, rows)
        ELSE Outcome(Response(200, "",
                 [access_token |-> create_access_token(IntSubject(TheOne(user)), NoDelta, t),
                  token_type |-> "bearer"]), table, rows)

(***************************************************************************)
(* app/api/v1/endpoints/users.py                                           *)
(***************************************************************************)
read_current_user(table, rows, t, credentials) ==
    LET current_user == get_current_active_user(credentials, table, t)
    IN  IF current_user.status # 0 THEN Refusal(current_user, table, rows)
        ELSE Outcome(Response(200, "", User(table[current_user.user_id])), table, rows)

update_current_user(table, rows, t, credentials, user_update, salt) ==
    LET current_user == get_current_active_user(credentials, table, t)
        updated == UserService_update_user(table, current_user.user_id, user_update, salt)
    IN  IF current_user.status # 0 THEN Refusal(current_user, table, rows)
        ELSE IF updated.exc # "none"
        THEN Outcome(exception_handler(updated.exc), table, rows)
        ELSE Outcome(Response(200, "", updated.user), updated.table, rows)

read_users(table, rows, t, credentials, skip, limit) ==
    LET current_user == get_current_superuser(credentials, table, t)
        found == get_multi(table, skip, limit)
    IN  IF current_user.status # 0 THEN Refusal(current_user, table, rows)
        ELSE Outcome(Response(200, "", [k \in 1..Len(found) |-> User(found[k])]),
                     table, rows)

read_user(table, rows, t, credentials, user_id) ==
    LET current_user == get_current_superuser(credentials, table, t)
    IN  IF current_user.status # 0 THEN Refusal(current_user, table, rows)
        ELSE IF ~Exists(table, user_id)
        THEN Outcome(Response(404, "User not found", None), table, rows)
        ELSE Outcome(Response(200, "", User(table[user_id])), table, rows)

\* delete_user without the check of the caller's own id
delete_user_self_allowed(table, rows, t, credentials, user_id, on_delete) ==
    LET current_user == get_current_superuser(credentials, table, t)
        deleted == Repository_delete(table, user_id)
        owned == {i \in DOMAIN rows : rows[i].owner_id = user_id}
    IN  IF current_user.status # 0 THEN Refusal(current_user, table, rows)
        ELSE IF ~deleted.deleted
        THEN Outcome(Response(404, "User not found", None), table, rows)
        ELSE IF owned # {} /\ on_delete = "RESTRICT"
        THEN Outcome(exception_handler("IntegrityError"), table, rows)
        ELSE Outcome(Response(200, "", [message |-> "User deleted successfully"]),
                     deleted.table, [i \in (DOMAIN rows) \ owned |-> rows[i]])

\* What the commit of a deleted user does to the items that user owns is
\* the foreign key's ON DELETE rule: "CASCADE" removes them, "RESTRICT"
\* fails the commit with IntegrityError.
delete_user(table, rows, t, credentials, user_id, on_delete) ==
    LET current_user == get_current_superuser(credentials, table, t)
        deleted == Repository_delete(table, user_id)
        owned == {i \in DOMAIN rows : rows[i].owner_id = user_id}
    IN  IF current_user.status # 0 THEN Refusal(current_user, table, rows)
        ELSE IF user_id = current_user.user_id
        THEN Outcome(Response(400, "Cannot delete yourself", None), table, rows)
        ELSE IF ~deleted.deleted
        THEN Outcome(Response(404, "User not found", None), table, rows)
        ELSE IF owned # {} /\ on_delete = "RESTRICT"
        THEN Outcome(exception_handler("IntegrityError"), table, rows)
        ELSE Outcome(Response(200, "", [message |-> "User deleted successfully"]),
                     deleted.table, [i \in (DOMAIN rows) \ owned |-> rows[i]])

(***************************************************************************)
(* app/api/v1/endpoints/items.py                                           *)
(***************************************************************************)
\* the ownership check without the superuser's exemption
NotPermitted_owner_only(item, current_user) ==
    item.owner_id # current_user.id

\* item.owner_id != current_user.id and not current_user.is_superuser
NotPermitted(item, current_user) ==
    item.owner_id # current_user.id /\ ~current_user.is_superuser

create_item(table, rows, t, credentials, id, item_in) ==
    LET current_user == get_current_active_user(credentials, table, t)
        created == ItemService_create_item(rows, id, item_in, current_user.user_id,
                                           DOMAIN table)
    IN  IF current_user.status # 0 THEN Refusal(current_user, table, rows)
        ELSE IF created.exc # "none"
        THEN Outcome(exception_handler(created.exc), table, rows)
        ELSE Outcome(Response(201, "", created.item), table, created.table)

read_items(table, rows, t, credentials, skip, limit) ==
    LET current_user == get_current_active_user(credentials, table, t)
    IN  IF current_user.status # 0 THEN Refusal(current_user, table, rows)
        ELSE Outcome(Response(200, "",
                 ItemService_get_user_items(rows, current_user.user_id, skip, limit)),
                 table, rows)

read_item(table, rows, t, credentials, item_id) ==
    LET current_user == get_current_active_user(credentials, table, t)
    IN  IF current_user.status # 0 THEN Refusal(current_user, table, rows)
        ELSE IF ~Exists(rows, item_id)
        THEN Outcome(Response(404, "Item not found", None), table, rows)
        ELSE IF NotPermitted(Item(rows[item_id]), table[current_user.user_id])
        THEN Outcome(Response(403, "Not enough privileges", None), table, rows)
        ELSE Outcome(Response(200, "", Item(rows[item_id])), table, rows)

\* update_item that writes and commits before it checks the caller
update_item_commit_first(table, rows, t, credentials, item_id, item_update) ==
    LET current_user == get_current_active_user(credentials, table, t)
        updated == ItemService_update_item(rows, item_id, item_update, DOMAIN table)
    IN  IF current_user.status # 0 THEN Refusal(current_user, table, rows)
        ELSE IF ~Exists(rows, item_id)
        THEN Outcome(Response(404, "Item not found", None), table, rows)
        ELSE IF updated.exc # "none"
        THEN Outcome(exception_handler(updated.exc), table, rows)
        ELSE IF NotPermitted(Item(rows[item_id]), table[current_user.user_id])
        THEN Outcome(Response(403, "Not enough privileges", None), table, updated.table)
        ELSE Outcome(Response(200, "", updated.item), table, updated.table)

\* update_item from the call of the service on: what the service returns
\* is committed and returned, and a None fails response_model=Item
update_item_authorized(table, rows, item_id, item_update) ==
    LET updated == ItemService_update_item(rows, item_id, item_update, DOMAIN table)
    IN  IF updated.exc # "none"
        THEN Outcome(exception_handler(updated.exc), table, rows)
        ELSE IF updated.item = NoRow
        THEN Outcome(exception_handler("ResponseValidationError"), table, rows)
        ELSE Outcome(Response(200, "", updated.item), table, updated.table)

update_item(table, rows, t, credentials, item_id, item_update) ==
    LET current_user == get_current_active_user(credentials, table, t)
    IN  IF current_user.status # 0 THEN Refusal(current_user, table, rows)
        ELSE IF ~Exists(rows, item_id)
        THEN Outcome(Response(404, "Item not found", None), table, rows)
        ELSE IF NotPermitted(Item(rows[item_id]), table[current_user.user_id])
        THEN Outcome(Response(403, "Not enough privileges", None), table, rows)
        ELSE update_item_authorized(table, rows, item_id, item_update)

delete_item(table, rows, t, credentials, item_id) ==
    LET current_user == get_current_active_user(credentials, table, t)
    IN  IF current_user.status # 0 THEN Refusal(current_user, table, rows)
        ELSE IF ~Exists(rows, item_id)
        THEN Outcome(Response(404, "Item not found", None), table, rows)
        ELSE IF NotPermitted(Item(rows[item_id]), table[current_user.user_id])
        THEN Outcome(Response(403, "Not enough privileges", None), table, rows)
        ELSE Outcome(Response(200, "", [message |-> "Item deleted successfully"]),
                     table, Repository_delete(rows, item_id).table)

(***************************************************************************)
(* The state after construction: a database that holds three users and     *)
(* two items, written to it directly as the test fixtures do.              *)
(***************************************************************************)
UserRow(id, email, username, full_name, password, is_active, is_superuser) ==
    [id |-> id, email |-> email, username |-> username, full_name |-> full_name,
     hashed_password |-> get_password_hash(password, "s0"),
     is_active |-> is_active, is_superuser |-> is_superuser]

ItemRow(id, title, description, owner_id) ==
    [id |-> id, title |-> title, description |-> description,
     owner_id |-> owner_id, is_active |-> TRUE]

\* users 1, 2 and 3 are alice, bob and carol
\* bob is a superuser or not, carol is active or not
SeedUsers(bob_superuser, carol_active) ==
    [i \in {1, 2, 3} |->
        CASE i = 1 -> UserRow(1, "alice@x.com", "alice", "Alice", "alicepw1", TRUE, FALSE)
          [] i = 2 -> UserRow(2, "bob@x.com", "bob", None, "bobspw22", TRUE, bob_superuser)
          [] i = 3 -> UserRow(3, "carol@x.com", "carol", None, "carolpw3", carol_active, FALSE)]

SeedItems ==
    [i \in {1, 2} |->
        CASE i = 1 -> ItemRow(1, "T1", "D1", 1)
          [] i = 2 -> ItemRow(2, "T2", None, 3)]

NoRequest == [op |-> "none"]
NoResponse == Response(0, "", None)

InitDb(bob_superuser, carol_active) ==
    /\ users = SeedUsers(bob_superuser, carol_active)
    /\ items = SeedItems
    /\ seq = [users |-> 4, items |-> 3]
    /\ req = NoRequest
    /\ resp = NoResponse
    /\ pre = [users |-> users, items |-> items, now |-> 0]
    /\ requests = <<>>
    /\ handled = [a \in Addresses |-> <<>>]
    /\ refused = [a \in Addresses |-> -1]
    /\ inflight = NoRequest

\* the token a fixture makes for a user: create_access_token(subject=user.id)
FixtureToken(id) == create_access_token(IntSubject(id), NoDelta, 0)

(***************************************************************************)
(* One request, served when no other is being answered: the tables become  *)
(* the ones its endpoint committed.                                        *)
(***************************************************************************)
Serve(request, outcome) ==
    /\ req = NoRequest
    /\ req' = request
    /\ resp' = outcome.response
    /\ pre' = [users |-> users, items |-> items, now |-> now]
    /\ users' = outcome.users
    /\ items' = outcome.items
    /\ UNCHANGED <<requests, handled, refused, inflight>>

\* the credentials a client can send: a token that was issued, such a token
\* with its payload or signature altered, a string that is no token, or none
Malformed ==
    [scheme |-> "Bearer", wellformed |-> FALSE, signed |-> FALSE, sub |-> "", exp |-> 0]
Tampered(token) == [token EXCEPT !.signed = FALSE]
Credentials == tokens \cup {Tampered(k) : k \in tokens} \cup {Malformed, NoCredentials}

\* the clients keep a token they are given while they hold fewer than MaxTokens
Keep(token) ==
    IF Cardinality(tokens \cup {token}) <= MaxTokens THEN tokens \cup {token} ELSE tokens

Register(user_in, salt) ==
    /\ seq.users <= MaxRows
    /\ LET outcome == register(users, items, seq.users, user_in, salt)
       IN  /\ Serve([op |-> "register", body |-> user_in], outcome)
           /\ seq' = IF outcome.response.status = 201
                     THEN [seq EXCEPT !.users = @ + 1] ELSE seq
    /\ UNCHANGED <<now, tokens>>

Login(username, password) ==
    /\ LET outcome == login(users, items, now, username, password)
       IN  /\ Serve([op |-> "login", username |-> username, password |-> password],
                    outcome)
           /\ tokens' = IF outcome.response.status = 200
                        THEN Keep(outcome.response.body.access_token) ELSE tokens
    /\ UNCHANGED <<seq, now>>

ReadCurrentUser(credentials) ==
    /\ Serve([op |-> "read_current_user", credentials |-> credentials],
             read_current_user(users, items, now, credentials))
    /\ UNCHANGED <<seq, now, tokens>>

\* the body of the request is parsed into the schema of the endpoint's
\* parameter before the endpoint runs
UpdateCurrentUser(credentials, user_update, salt) ==
    /\ Serve([op |-> "update_current_user", credentials |-> credentials,
              body |-> user_update],
             update_current_user(users, items, now, credentials,
                                 UserUpdate(user_update).value, salt))
    /\ UNCHANGED <<seq, now, tokens>>

ReadUsers(credentials, skip, limit) ==
    /\ Serve([op |-> "read_users", credentials |-> credentials,
              skip |-> skip, limit |-> limit],
             read_users(users, items, now, credentials, skip, limit))
    /\ UNCHANGED <<seq, now, tokens>>

ReadUser(credentials, user_id) ==
    /\ Serve([op |-> "read_user", credentials |-> credentials, id |-> user_id],
             read_user(users, items, now, credentials, user_id))
    /\ UNCHANGED <<seq, now, tokens>>

DeleteUser(credentials, user_id, on_delete) ==
    /\ Serve([op |-> "delete_user", credentials |-> credentials, id |-> user_id],
             delete_user(users, items, now, credentials, user_id, on_delete))
    /\ UNCHANGED <<seq, now, tokens>>

CreateItem(credentials, item_in) ==
    /\ seq.items <= MaxRows
    /\ LET outcome == create_item(users, items, now, credentials, seq.items, item_in)
       IN  /\ Serve([op |-> "create_item", credentials |-> credentials,
                     body |-> item_in], outcome)
           /\ seq' = IF outcome.response.status = 201
                     THEN [seq EXCEPT !.items = @ + 1] ELSE seq
    /\ UNCHANGED <<now, tokens>>

ReadItems(credentials, skip, limit) ==
    /\ Serve([op |-> "read_items", credentials |-> credentials,
              skip |-> skip, limit |-> limit],
             read_items(users, items, now, credentials, skip, limit))
    /\ UNCHANGED <<seq, now, tokens>>

ReadItem(credentials, item_id) ==
    /\ Serve([op |-> "read_item", credentials |-> credentials, id |-> item_id],
             read_item(users, items, now, credentials, item_id))
    /\ UNCHANGED <<seq, now, tokens>>

UpdateItem(credentials, item_id, item_update) ==
    /\ Serve([op |-> "update_item", credentials |-> credentials, id |-> item_id,
              body |-> item_update],
             update_item(users, items, now, credentials, item_id,
                         ItemUpdate(item_update).value))
    /\ UNCHANGED <<seq, now, tokens>>

DeleteItem(credentials, item_id) ==
    /\ Serve([op |-> "delete_item", credentials |-> credentials, id |-> item_id],
             delete_item(users, items, now, credentials, item_id))
    /\ UNCHANGED <<seq, now, tokens>>

(***************************************************************************)
(* The clock, and create_access_token called directly, as the test         *)
(* fixtures call it.                                                       *)
(***************************************************************************)
\* The clock is read at these instants: the first ticks, and the ticks
\* around the end of one default lifetime.
Instants ==
    (0..MaxExtraTicks)
    \cup {minutes(ACCESS_TOKEN_EXPIRE_MINUTES) + k : k \in 0..MaxExtraTicks}

Tick(t) ==
    /\ t \in Instants
    /\ t > now
    /\ now' = t
    /\ UNCHANGED <<users, items, seq, tokens, req, resp, pre, requests, handled, refused, inflight>>

CreateAccessToken(subject, expires_delta) ==
    /\ req = NoRequest
    /\ req' = [op |-> "create_access_token", subject |-> subject,
               expires_delta |-> expires_delta]
    /\ resp' = Response(0, "", create_access_token(subject, expires_delta, now))
    /\ pre' = [users |-> users, items |-> items, now |-> now]
    /\ UNCHANGED <<users, items, seq, now, tokens, requests, handled, refused, inflight>>

\* One request through RateLimitMiddleware.dispatch, at the time the clock
\* shows: it is answered 429, or passed on to call_next, whose response is
\* returned.
Dispatch(client_ip, status) ==
    /\ req = NoRequest
    /\ LET done == RateLimit_dispatch(requests, client_ip, now)
       IN  /\ requests' = done.requests
           /\ handled' = IF done.limited THEN handled
                         ELSE [handled EXCEPT ![client_ip] = Append(@, now)]
           /\ refused' = IF done.limited
                         THEN [refused EXCEPT ![client_ip] = now]
                         ELSE refused
           /\ resp' = IF done.limited THEN RateLimitExceeded
                      ELSE Response(status, "", None)
    /\ req' = [op |-> "dispatch", client |-> client_ip]
    /\ pre' = [users |-> users, items |-> items, now |-> now, handled |-> handled]
    /\ UNCHANGED <<users, items, seq, now, tokens, inflight>>

(***************************************************************************)
(* Two requests at once.  A handler gives way at each await; here one      *)
(* request waits after its checks have passed, while others are served,    *)
(* and then runs to its end against the tables as they are committed by    *)
(* then (every statement reads what is committed, PostgreSQL's default).   *)
(* update_item waits between the endpoint's privilege check and the        *)
(* service's lookup, PUT /users/me before the flush of its update,         *)
(* register behind the two lookups of create_user.                         *)
(***************************************************************************)
Checked(request) ==
    CASE request.op = "update_item" ->
           LET current_user == get_current_active_user(request.credentials, users, now)
           IN  /\ current_user.status = 0
               /\ Exists(items, request.id)
               /\ ~NotPermitted(Item(items[request.id]), users[current_user.user_id])
      [] request.op = "update_current_user" ->
           get_current_active_user(request.credentials, users, now).status = 0
      [] request.op = "register" ->
           /\ seq.users <= MaxRows
           /\ get_by_email(users, request.body.email) = {}
           /\ get_by_username(users, request.body.username) = {}

Resumed(request) ==
    CASE request.op = "update_item" ->
           update_item_authorized(users, items, request.id,
                                  ItemUpdate(request.body).value)
      [] request.op = "update_current_user" ->
           LET current_user == get_current_active_user(request.credentials,
                                   request.seen.users, request.seen.now)
               updated == UserService_update_user(users, current_user.user_id,
                              UserUpdate(request.body).value, "s1")
           IN  IF updated.exc # "none"
               THEN Outcome(exception_handler(updated.exc), users, items)
               ELSE Outcome(Response(200, "", updated.user), updated.table, items)
      [] request.op = "register" ->
           LET created == UserService_create_user_store(users, seq.users,
                              request.body, "s1")
           IN  IF created.exc = "none"
               THEN Outcome(Response(201, "", created.user), created.table, items)
               ELSE IF IsValueError(created.exc)
               THEN Outcome(Response(400, created.detail, None), users, items)
               ELSE Outcome(exception_handler(created.exc), users, items)

\* the request has passed its checks and waits; it remembers what it saw
Suspend(request) ==
    /\ req = NoRequest
    /\ inflight = NoRequest
    /\ Checked(request)
    /\ inflight' = Put(request, "seen", [users |-> users, items |-> items, now |-> now])
    /\ UNCHANGED <<users, items, seq, now, tokens, req, resp, pre,
                   requests, handled, refused>>

\* the waiting request runs to its end
Resume ==
    /\ req = NoRequest
    /\ inflight # NoRequest
    /\ LET outcome == Resumed(inflight)
       IN  /\ req' = inflight
           /\ resp' = outcome.response
           /\ users' = outcome.users
           /\ items' = outcome.items
           /\ seq' = IF inflight.op = "register" /\ outcome.response.status = 201
                     THEN [seq EXCEPT !.users = @ + 1] ELSE seq
    /\ pre' = [users |-> users, items |-> items, now |-> now]
    /\ inflight' = NoRequest
    /\ UNCHANGED <<now, tokens, requests, handled, refused>>

\* the response has gone out
Respond ==
    /\ req # NoRequest
    /\ req' = NoRequest
    /\ resp' = NoResponse
    /\ pre' = [users |-> users, items |-> items, now |-> now]
    /\ UNCHANGED <<users, items, seq, now, tokens, requests, handled, refused, inflight>>

(***************************************************************************)
(* The inputs of the requests.                                             *)
(***************************************************************************)
\* the bodies that hold the fields S, each at one of its values
RECURSIVE BodiesOver(_, _)
BodiesOver(values, S) ==
    IF S = {} THEN {<<>>}
    ELSE LET k == CHOOSE x \in S : TRUE
         IN  {Put(b, k, v) : b \in BodiesOver(values, S \ {k}), v \in values[k]}

\* the bodies that hold at most MaxFields of the fields
Bodies(values) ==
    UNION {BodiesOver(values, S) :
              S \in {T \in SUBSET (DOMAIN values) : Cardinality(T) <= MaxFields}}

UserUpdateValues ==
    [email     |-> {"new@x.com", "bob@x.com"},
     username  |-> {"newname"},
     full_name |-> {None, "N"},
     password  |-> {None, "newpass22"},
     is_active |-> {FALSE}]

ItemUpdateValues ==
    [title       |-> {"T9"},
     description |-> {None, "D9"},
     is_active   |-> {FALSE}]

UserUpdateBodies == Bodies(UserUpdateValues)
ItemUpdateBodies == Bodies(ItemUpdateValues)

UserCreateBodies ==
    {b \in BodiesOver([email     |-> {"alice@x.com", "new@x.com"},
                       username  |-> {"bob", "newname"},
                       password  |-> {"newpass22"},
                       full_name |-> {None, "N"}],
                      UserCreateFields) : TRUE}
    \cup BodiesOver([email |-> {"new@x.com"}, username |-> {"newname"},
                     password |-> {"newpass22"}], UserCreateRequired)

ItemCreateBodies ==
    BodiesOver([title |-> {"T9"}, description |-> {None, "D9"}], ItemCreateFields)
    \cup BodiesOver([title |-> {"T9"}], ItemCreateRequired)

Usernames == {"alice", "bob", "carol", "newname"}
Passwords == {"alicepw1", "bobspw22", "carolpw3"}
UserIds == 1..4
ItemIds == 1..3
Pages == {<<0, 100>>, <<1, 1>>}
\* skip and limit of GET /items are any integers
ItemPages == Pages \cup {<<0, 1>>, <<2, 1>>, <<-1, 100>>, <<-1, 2>>, <<0, -1>>}
SubjectIds == 1..3
Deltas == {NoDelta} \cup {Delta(d) : d \in 0..MaxDelta}

(***************************************************************************)
(* The specifications.  Spec is the whole program.  The others are the     *)
(* program with part of its environment held still, so that the rest can   *)
(* be explored exhaustively: the clock and the tokens (SpecAuth), the      *)
(* users (SpecUsers), the items (SpecItems), updates alone (SpecUpdate)    *)
(* and the token functions alone (SpecToken).                              *)
(***************************************************************************)
Init ==
    /\ \E bob_superuser \in BOOLEAN, carol_active \in BOOLEAN :
           InitDb(bob_superuser, carol_active)
    /\ now = 0
    /\ tokens = {}

\* the clock moves on to the next instant
TickStep ==
    \E t \in Instants :
        /\ \A u \in Instants : u > now => t <= u
        /\ Tick(t)
CreateAccessTokenStep ==
    \E n \in SubjectIds, e \in Deltas : CreateAccessToken(IntSubject(n), e)
RegisterStep == \E b \in UserCreateBodies, salt \in Salts : Register(b, salt)
LoginStep == \E u \in Usernames, p \in Passwords : Login(u, p)
ReadCurrentUserStep == \E c \in Credentials : ReadCurrentUser(c)
\* a salt is drawn when a password is hashed
UpdateCurrentUserStep ==
    \E c \in Credentials, b \in UserUpdateBodies :
        \E salt \in (IF HasPassword(b) THEN Salts ELSE {"s1"}) :
            UpdateCurrentUser(c, b, salt)
ReadUsersStep == \E c \in Credentials, p \in Pages : ReadUsers(c, p[1], p[2])
ReadUserStep == \E c \in Credentials, i \in UserIds : ReadUser(c, i)
DeleteUserStep ==
    \E c \in Credentials, i \in UserIds, on_delete \in {"CASCADE", "RESTRICT"} :
        DeleteUser(c, i, on_delete)
CreateItemStep == \E c \in Credentials, b \in ItemCreateBodies : CreateItem(c, b)
ReadItemsStep == \E c \in Credentials, p \in ItemPages : ReadItems(c, p[1], p[2])
ReadItemStep == \E c \in Credentials, i \in ItemIds : ReadItem(c, i)
UpdateItemStep ==
    \E c \in Credentials, i \in ItemIds, b \in ItemUpdateBodies :
        UpdateItem(c, i, b)
DeleteItemStep == \E c \in Credentials, i \in ItemIds : DeleteItem(c, i)

Next ==
    \/ TickStep
    \/ CreateAccessTokenStep
    \/ RegisterStep
    \/ LoginStep
    \/ ReadCurrentUserStep
    \/ UpdateCurrentUserStep
    \/ ReadUsersStep
    \/ ReadUserStep
    \/ DeleteUserStep
    \/ CreateItemStep
    \/ ReadItemsStep
    \/ ReadItemStep
    \/ UpdateItemStep
    \/ DeleteItemStep
    \/ Respond

Spec == Init /\ [][Next]_vars

\* the token functions alone
InitToken == InitDb(TRUE, FALSE) /\ now = 0 /\ tokens = {}
NextToken ==
    \/ TickStep
    \/ CreateAccessTokenStep
    \/ Respond
SpecToken == InitToken /\ [][NextToken]_vars

\* login and the authorization dependencies, with the clock running
Deactivate == \E c \in Credentials : UpdateCurrentUser(c, [is_active |-> FALSE], "s1")
InitAuth == InitDb(TRUE, FALSE) /\ now = 0 /\ tokens = {}
NextAuth ==
    \/ Tick(minutes(ACCESS_TOKEN_EXPIRE_MINUTES) + TicksPerSecond)
    \/ LoginStep
    \/ ReadCurrentUserStep
    \/ Deactivate
    \/ ReadUsersStep
    \/ ReadUserStep
    \/ DeleteUserStep
    \/ Respond
SpecAuth == InitAuth /\ [][NextAuth]_vars

\* registration and the users' own accounts, alice holding a token
InitUsers ==
    /\ \E carol_active \in BOOLEAN : InitDb(TRUE, carol_active)
    /\ now = 0
    /\ tokens = {FixtureToken(1)}
NextUsers ==
    \/ RegisterStep
    \/ ReadCurrentUserStep
    \/ UpdateCurrentUserStep
    \/ Respond
SpecUsers == InitUsers /\ [][NextUsers]_vars

\* the items, alice and bob holding a token
InitItems ==
    /\ \E bob_superuser \in BOOLEAN : InitDb(bob_superuser, TRUE)
    /\ now = 0
    /\ tokens = {FixtureToken(1), FixtureToken(2)}
NextItems ==
    \/ CreateItemStep
    \/ ReadItemsStep
    \/ ReadItemStep
    \/ UpdateItemStep
    \/ DeleteItemStep
    \/ Respond
SpecItems == InitItems /\ [][NextItems]_vars

\* the updates alone, alice holding a token
InitUpdate == InitDb(TRUE, TRUE) /\ now = 0 /\ tokens = {FixtureToken(1)}
NextUpdate ==
    \/ UpdateCurrentUserStep
    \/ UpdateItemStep
    \/ Respond
SpecUpdate == InitUpdate /\ [][NextUpdate]_vars

\* the listing of items, alice owning three items of five; items are
\* deleted to vary the lists
PagedItems ==
    [i \in 1..5 |->
        CASE i = 1 -> ItemRow(1, "T1", "D1", 1)
          [] i = 2 -> ItemRow(2, "T2", None, 3)
          [] i = 3 -> ItemRow(3, "T3", None, 1)
          [] i = 4 -> ItemRow(4, "T4", "D4", 2)
          [] i = 5 -> ItemRow(5, "T5", None, 1)]
InitPages ==
    /\ \E bob_superuser \in BOOLEAN : users = SeedUsers(bob_superuser, TRUE)
    /\ items = PagedItems
    /\ seq = [users |-> 4, items |-> 6]
    /\ req = NoRequest
    /\ resp = NoResponse
    /\ pre = [users |-> users, items |-> items, now |-> 0]
    /\ requests = <<>>
    /\ handled = [a \in Addresses |-> <<>>]
    /\ refused = [a \in Addresses |-> -1]
    /\ inflight = NoRequest
    /\ now = 0
    /\ tokens = {FixtureToken(1), FixtureToken(2)}
DeletePagedItemStep == \E c \in Credentials, i \in DOMAIN PagedItems : DeleteItem(c, i)
NextPages ==
    \/ ReadItemsStep
    \/ DeletePagedItemStep
    \/ Respond
SpecPages == InitPages /\ [][NextPages]_vars

\* the requests that write items or remove users, the two fixture users
\* holding tokens; the bodies of the item updates name owner_id
ReassignBodies ==
    {[owner_id |-> o] : o \in UserIds}
    \cup {[owner_id |-> o, title |-> "T9"] : o \in UserIds}
ReassignItemStep ==
    \E c \in Credentials, i \in ItemIds, b \in ReassignBodies : UpdateItem(c, i, b)
InitOwnership ==
    InitDb(TRUE, TRUE) /\ now = 0 /\ tokens = {FixtureToken(1), FixtureToken(2)}
NextOwnership ==
    \/ CreateItemStep
    \/ ReassignItemStep
    \/ DeleteItemStep
    \/ Deactivate
    \/ DeleteUserStep
    \/ Respond
SpecOwnership == InitOwnership /\ [][NextOwnership]_vars

\* RateLimitMiddleware alone, in front of some handler, over the first
\* ticks of the clock
DispatchStep == \E a \in Addresses, status \in {200, 404} : Dispatch(a, status)
EarlyTickStep == \E t \in 0..MaxExtraTicks : t = now + 1 /\ Tick(t)
NextRateLimit ==
    \/ EarlyTickStep
    \/ DispatchStep
    \/ Respond
SpecRateLimit == InitOwnership /\ [][NextRateLimit]_vars

\* requests two at a time: the updates of an item against its deletion, and
\* the requests that take an email or a username against each other
RenameBodies ==
    {[email |-> "new@x.com"], [username |-> "newname"],
     [email |-> "new@x.com", username |-> "newname"], [email |-> "bob@x.com"]}
RacingRequests ==
    {[op |-> "update_item", credentials |-> c, id |-> i, body |-> [title |-> "T9"]] :
        c \in tokens, i \in ItemIds}
    \cup {[op |-> "update_current_user", credentials |-> c, body |-> b] :
             c \in tokens, b \in RenameBodies}
    \cup {[op |-> "register", body |-> Put(b, "password", "newpass22")] :
             b \in {[email |-> "new@x.com", username |-> "newname"],
                    [email |-> "new2@x.com", username |-> "newname"],
                    [email |-> "new@x.com", username |-> "newname2"]}}
NextRace ==
    \/ \E request \in RacingRequests : Suspend(request)
    \/ Resume
    \/ \E c \in tokens, b \in RenameBodies : UpdateCurrentUser(c, b, "s1")
    \/ \E request \in RacingRequests :
           request.op = "register" /\ Register(request.body, "s1")
    \/ \E c \in tokens, i \in ItemIds : DeleteItem(c, i)
    \/ Respond
SpecRace == InitOwnership /\ [][NextRace]_vars

\* every endpoint that writes; a user update that asks for bob's email
\* fails its flush for everybody else
TakeEmailStep ==
    \E c \in Credentials : UpdateCurrentUser(c, [email |-> "bob@x.com"], "s1")
\* bodies that name is_superuser, which no schema declares
PromoteStep ==
    \E c \in Credentials, v \in BOOLEAN :
        \/ UpdateCurrentUser(c, [full_name |-> "N", is_superuser |-> v], "s1")
        \/ Register([email |-> "new@x.com", username |-> "newname",
                     password |-> "newpass22", is_superuser |-> v], "s1")
NextWrites ==
    \/ RegisterStep
    \/ TakeEmailStep
    \/ PromoteStep
    \/ Deactivate
    \/ DeleteUserStep
    \/ CreateItemStep
    \/ ReassignItemStep
    \/ DeleteItemStep
    \/ Respond
SpecWrites == InitOwnership /\ [][NextWrites]_vars

(***************************************************************************)
(* What the claims speak of.                                               *)
(***************************************************************************)
\* the request being answered went through get_current_user
Protected ==
    req.op \in {"read_current_user", "update_current_user", "read_users", "read_user",
                "delete_user", "create_item", "read_items", "read_item",
                "update_item", "delete_item"}

\* what get_current_user made of its credentials when it was served
Caller == get_current_user(req.credentials, pre.users, pre.now)
Authenticated == Protected /\ Caller.status = 0

\* the tables are as they were when the request was served
TablesUnchanged == users = pre.users /\ items = pre.items

(***************************************************************************)
(* C1: a registration whose email and username no stored user has is       *)
(* answered 201 with the new user's id, email and username; the user is    *)
(* stored with a hash of the password, and the response holds neither the  *)
(* password nor the hash.                                                  *)
(***************************************************************************)
EmailStored ==
    \E i \in DOMAIN pre.users : pre.users[i].email = req.body.email
UsernameStored ==
    \E i \in DOMAIN pre.users : pre.users[i].username = req.body.username

FreshRegistration ==
    /\ req.op = "register"
    /\ ~EmailStored
    /\ ~UsernameStored

C1_RegistrationSucceeds ==
    FreshRegistration =>
        /\ resp.status = 201
        /\ {"id", "email", "username"} \subseteq DOMAIN resp.body
        /\ resp.body.email = req.body.email
        /\ resp.body.username = req.body.username
        /\ resp.body.id \in (DOMAIN users) \ (DOMAIN pre.users)
        /\ users[resp.body.id].email = req.body.email
        /\ users[resp.body.id].username = req.body.username
        /\ users[resp.body.id].hashed_password.scheme = "bcrypt"
        /\ verify_password(req.body.password, users[resp.body.id].hashed_password)
        /\ {"password", "hashed_password"} \cap DOMAIN resp.body = {}

(***************************************************************************)
(* C2: a registration whose email is the email of a stored user, or whose  *)
(* username is the username of a stored user, is answered 400 and stores   *)
(* no user; the answer is the one of the check that found the duplicate,   *)
(* the email being looked at first.                                        *)
(***************************************************************************)
C2_DuplicateRejected ==
    (req.op = "register" /\ (EmailStored \/ UsernameStored)) =>
        /\ resp.status = 400
        /\ resp.detail = IF EmailStored THEN "Email already registered"
                                       ELSE "Username already taken"
        /\ TablesUnchanged

\* a stored username with an email nobody has
C2_Witness ==
    /\ req.op = "register"
    /\ UsernameStored
    /\ ~EmailStored
    /\ resp.status = 400

(***************************************************************************)
(* C3: login is answered 401 when no user has the username or the password *)
(* does not verify against that user's stored hash; otherwise 403 when the *)
(* user is inactive; otherwise 200 with token_type "bearer" and an access  *)
(* token that validates to that user's id.                                 *)
(***************************************************************************)
C3_Login ==
    req.op = "login" =>
        LET named == {i \in DOMAIN pre.users : pre.users[i].username = req.username}
        IN  IF \A i \in named :
                   ~verify_password(req.password, pre.users[i].hashed_password)
            THEN resp.status = 401
            ELSE \A i \in named :
                   IF ~pre.users[i].is_active
                   THEN resp.status = 403
                   ELSE /\ resp.status = 200
                        /\ resp.body.token_type = "bearer"
                        /\ decode_access_token(resp.body.access_token, pre.now)
                               = Subject(i)

\* a login that was answered with a token
C3_Witness ==
    /\ req.op = "login"
    /\ resp.status = 200
    /\ decode_access_token(resp.body.access_token, pre.now).valid

(***************************************************************************)
(* C4: POST /items by an authenticated active user is answered 201 and     *)
(* stores an item whose owner_id is that user's id.                        *)
(***************************************************************************)
C4_CreateItemOwned ==
    (req.op = "create_item" /\ Authenticated) =>
        /\ resp.status = 201
        /\ resp.body.id \in (DOMAIN items) \ (DOMAIN pre.items)
        /\ items[resp.body.id].owner_id = Caller.user_id
        /\ resp.body.owner_id = Caller.user_id

(***************************************************************************)
(* C5: GET, PUT and DELETE of an existing item succeed when the caller is  *)
(* its owner or a superuser; for every other authenticated caller they     *)
(* are answered 403 and leave the tables as they were.                     *)
(***************************************************************************)
ItemRequest ==
    /\ req.op \in {"read_item", "update_item", "delete_item"}
    /\ Authenticated
    /\ req.id \in DOMAIN pre.items

OwnerOrSuperuser ==
    \/ pre.items[req.id].owner_id = Caller.user_id
    \/ pre.users[Caller.user_id].is_superuser

C5_OwnerOrSuperuserOnly ==
    ItemRequest =>
        IF OwnerOrSuperuser
        THEN /\ resp.status = 200
             /\ req.op = "read_item" =>
                    resp.body = Item(pre.items[req.id]) /\ TablesUnchanged
             /\ req.op = "update_item" =>
                    /\ req.id \in DOMAIN items
                    /\ resp.body = Item(items[req.id])
                    /\ \A f \in DOMAIN req.body : items[req.id][f] = req.body[f]
             /\ req.op = "delete_item" => req.id \notin DOMAIN items
        ELSE resp.status = 403 /\ TablesUnchanged

\* a superuser who is not the owner has changed an item
C5_Witness ==
    /\ ItemRequest
    /\ req.op = "update_item"
    /\ pre.items[req.id].owner_id # Caller.user_id
    /\ resp.status = 200
    /\ items # pre.items

(***************************************************************************)
(* C6: the authorization gate answers 401 to a token that is expired,      *)
(* malformed or tampered, 401 to a valid token whose subject is no stored  *)
(* user, 403 to a valid token of a user who is not active, and only        *)
(* otherwise lets the handler run, as the user the token names.            *)
(***************************************************************************)
C6_GateOrder ==
    (Protected /\ req.credentials.scheme = "Bearer") =>
        LET subject == decode_access_token(req.credentials, pre.now)
        IN  IF ~subject.valid THEN resp.status = 401 /\ TablesUnchanged
            ELSE IF subject.user_id \notin DOMAIN pre.users
            THEN resp.status = 401 /\ TablesUnchanged
            ELSE IF ~pre.users[subject.user_id].is_active
            THEN resp.status = 403 /\ resp.detail = "Inactive user" /\ TablesUnchanged
            ELSE /\ resp.status # 401
                 /\ resp.detail \notin {"Inactive user", "Not authenticated"}
                 /\ req.op = "read_current_user" =>
                        /\ resp.status = 200
                        /\ resp.body = User(pre.users[subject.user_id])
                 /\ req.op = "update_current_user" =>
                        \A i \in DOMAIN pre.users :
                            i # subject.user_id =>
                                i \in DOMAIN users /\ users[i] = pre.users[i]

\* a token that was issued to a user who has been deleted since
C6_Witness ==
    /\ Protected
    /\ req.credentials \in tokens
    /\ decode_access_token(req.credentials, pre.now).valid
    /\ decode_access_token(req.credentials, pre.now).user_id \notin DOMAIN pre.users
    /\ resp.status = 401

(***************************************************************************)
(* C7: the token create_access_token issues for a subject and a lifetime   *)
(* decodes to the subject at every time before the issue time plus the     *)
(* lifetime, and to None at every time after it.                           *)
(***************************************************************************)
C7_TokenLifetime ==
    (req.op = "create_access_token" /\ req.expires_delta.given) =>
        LET expiry == pre.now + req.expires_delta.ticks
        IN  /\ now < expiry =>
                decode_access_token(resp.body, now) = Subject(req.subject.i)
            /\ now > expiry => decode_access_token(resp.body, now) = Invalid

(***************************************************************************)
(* C8: GET /users, GET /users/{id} and DELETE /users/{id} run their        *)
(* handler only for an active superuser; every other authenticated caller  *)
(* is answered 403, and no user is read or deleted.                        *)
(***************************************************************************)
SuperuserRequest == req.op \in {"read_users", "read_user", "delete_user"}

C8_SuperuserOnly ==
    SuperuserRequest =>
        /\ (Authenticated /\ ~pre.users[Caller.user_id].is_superuser) =>
               /\ resp.status = 403
               /\ resp.body = None
               /\ TablesUnchanged
        /\ resp.status \in {200, 400, 404} =>
               /\ Authenticated
               /\ pre.users[Caller.user_id].is_active
               /\ pre.users[Caller.user_id].is_superuser
        /\ ~TablesUnchanged =>
               /\ Authenticated
               /\ pre.users[Caller.user_id].is_superuser

\* an active user who is no superuser asked for the deletion of a user
C8_Witness ==
    /\ req.op = "delete_user"
    /\ Authenticated
    /\ ~pre.users[Caller.user_id].is_superuser
    /\ req.id \in DOMAIN pre.users
    /\ resp.status = 403

(***************************************************************************)
(* C9: after a PUT /users/me that carries a password p, the stored hash is *)
(* a hash of p: login with the username and p succeeds, login with the     *)
(* previous password fails, and the fields the request does not carry are  *)
(* as they were.                                                           *)
(***************************************************************************)
PasswordUpdate ==
    /\ req.op = "update_current_user"
    /\ Authenticated
    /\ HasPassword(req.body)
    /\ resp.status = 200

C9_PasswordReplaced ==
    PasswordUpdate =>
        LET me == Caller.user_id
        IN  /\ UserService_authenticate(users, users[me].username, req.body.password)
                   = {me}
            /\ \A p \in Passwords :
                   (p # req.body.password
                      /\ verify_password(p, pre.users[me].hashed_password))
                   => UserService_authenticate(users, users[me].username, p) = {}
            /\ \A f \in {"email", "username", "full_name", "is_active"} \ DOMAIN req.body :
                   users[me][f] = pre.users[me][f]

(***************************************************************************)
(* C10: an update of a user or of an item that is applied sets the fields  *)
(* present in the body to the values given and leaves everything else as   *)
(* it was: the fields absent from the body, the columns a body cannot      *)
(* name, and the other rows.  (What a password in the body does to the     *)
(* stored hash is C9.)                                                     *)
(***************************************************************************)
SparsePatch(before, after, body, fields) ==
    /\ \A f \in fields :
           after[f] = IF f \in DOMAIN body THEN body[f] ELSE before[f]
    /\ \A f \in (DOMAIN before) \ (fields \cup {"hashed_password"}) :
           after[f] = before[f]

OthersUnchanged(before, after, id) ==
    /\ DOMAIN after = DOMAIN before
    /\ \A i \in (DOMAIN before) \ {id} : after[i] = before[i]

SuperuserCaller == Authenticated /\ pre.users[Caller.user_id].is_superuser

C11_DeleteUser ==
    (req.op = "delete_user" /\ SuperuserCaller) =>
        /\ req.id = Caller.user_id => resp.status = 400 /\ TablesUnchanged
        /\ (req.id # Caller.user_id /\ req.id \notin DOMAIN pre.users) =>
               resp.status = 404 /\ TablesUnchanged
        /\ users # pre.users =>
               /\ req.id # Caller.user_id
               /\ req.id \in DOMAIN pre.users
               /\ resp.status = 200
               /\ DOMAIN users = (DOMAIN pre.users) \ {req.id}
               /\ \A i \in DOMAIN users : users[i] = pre.users[i]
        /\ resp.status = 200 => req.id \notin DOMAIN users
        /\ Caller.user_id \in DOMAIN users

\* a superuser asked for the deletion of their own account
C11_Witness ==
    /\ req.op = "delete_user"
    /\ SuperuserCaller
    /\ req.id = Caller.user_id
    /\ resp.status = 400
    /\ resp.detail = "Cannot delete yourself"

(***************************************************************************)
(* C12: a login with a username that no user has is answered exactly as a  *)
(* login, against the same database, with the username of a stored user    *)
(* and a password that does not verify: authenticate returns the same      *)
(* absent value and the responses have the same status, detail, headers    *)
(* and body.                                                               *)
(***************************************************************************)
UsernameKnown(username) ==
    \E i \in DOMAIN pre.users : pre.users[i].username = username

WrongPassword(username, password) ==
    /\ UsernameKnown(username)
    /\ \A i \in DOMAIN pre.users :
           pre.users[i].username = username =>
               ~verify_password(password, pre.users[i].hashed_password)

C12_LoginNoLeak ==
    (req.op = "login" /\ ~UsernameKnown(req.username)) =>
        \A u \in Usernames, p \in Passwords :
            WrongPassword(u, p) =>
                /\ UserService_authenticate(pre.users, u, p)
                       = UserService_authenticate(pre.users, req.username, req.password)
                /\ login(pre.users, pre.items, pre.now, u, p).response = resp

\* a login with an unknown username was refused while another username
\* was known
C12_Witness ==
    /\ req.op = "login"
    /\ ~UsernameKnown(req.username)
    /\ \E u \in Usernames, p \in Passwords : WrongPassword(u, p)
    /\ resp.status = 401
    /\ resp.headers = WWWAuthenticateBearer

(***************************************************************************)
(* C13: a registration rejected because only its email is stored is        *)
(* answered exactly as a registration, against the same database, rejected *)
(* because only its username is stored.                                    *)
(***************************************************************************)
CollidesOnUsernameOnly(body) ==
    /\ \E i \in DOMAIN pre.users : pre.users[i].username = body.username
    /\ \A i \in DOMAIN pre.users : pre.users[i].email # body.email

C13_RegistrationNoLeak ==
    (req.op = "register" /\ EmailStored /\ ~UsernameStored /\ resp.status = 400) =>
        \A other \in UserCreateBodies :
            CollidesOnUsernameOnly(other) =>
                register(pre.users, pre.items, seq.users, other, "s1").response = resp

(***************************************************************************)
(* C14: in every reachable state the owner_id of every stored item is the  *)
(* id of a stored user, and no request changes the owner_id of an item     *)
(* that exists before and after it.                                        *)
(***************************************************************************)
C14_OwnershipImmutable ==
    /\ \A i \in DOMAIN items : items[i].owner_id \in DOMAIN users
    /\ \A i \in (DOMAIN items) \cap (DOMAIN pre.items) :
           items[i].owner_id = pre.items[i].owner_id

\* an update that named another owner was applied, and the owner was kept
C14_Witness ==
    /\ req.op = "update_item"
    /\ {"owner_id", "title"} \subseteq DOMAIN req.body
    /\ req.body.owner_id \in DOMAIN pre.users
    /\ req.body.owner_id # pre.items[req.id].owner_id
    /\ resp.status = 200
    /\ items[req.id].title = req.body.title
    /\ items[req.id].owner_id = pre.items[req.id].owner_id

(***************************************************************************)
(* C15: delete(id) of the repository returns true exactly when a row with  *)
(* that id exists, the row is then gone and the other rows are kept; and   *)
(* once DELETE /items/{id} has been answered 200, every later GET of that  *)
(* id that passes the authorization gate is answered 404.                  *)
(***************************************************************************)
DeleteRemoves(table, id) ==
    LET deleted == Repository_delete(table, id)
    IN  /\ deleted.deleted = (id \in DOMAIN table)
        /\ DOMAIN deleted.table = (DOMAIN table) \ {id}
        /\ \A i \in DOMAIN deleted.table : deleted.table[i] = table[i]

C15_DeletedStaysGone ==
    /\ [](\A id \in ItemIds : DeleteRemoves(items, id))
    /\ \A id \in ItemIds :
           []((req.op = "delete_item" /\ req.id = id /\ resp.status = 200) =>
                [](((req.op = "read_item" /\ req.id = id) /\ Authenticated) =>
                       resp.status = 404))

\* an item of the initial database is asked for after it was deleted
C15_Witness ==
    /\ req.op = "read_item"
    /\ Authenticated
    /\ req.id \in DOMAIN SeedItems
    /\ req.id \notin DOMAIN pre.items
    /\ resp.status = 404

(***************************************************************************)
(* C16: GET /items with skip and limit returns exactly the elements at     *)
(* positions skip to skip + limit - 1 (counted from 0) of the sequence of  *)
(* the stored items whose owner_id is the caller's id, and holds no item   *)
(* of another owner, whoever the caller is.                                *)
(***************************************************************************)
OwnedIds == SortedIds({i \in DOMAIN pre.items : pre.items[i].owner_id = Caller.user_id})

\* the elements of the caller's items at the positions first..last
Positions(first, last) ==
    LET lo == IF first < 0 THEN 0 ELSE first
        hi == IF last > Len(OwnedIds) - 1 THEN Len(OwnedIds) - 1 ELSE last
    IN  [k \in 1..(hi - lo + 1) |-> Item(pre.items[OwnedIds[lo + k]])]

OnlyOwnItems ==
    \A k \in DOMAIN resp.body : resp.body[k].owner_id = Caller.user_id

C16_ItemsPage ==
    (req.op = "read_items" /\ Authenticated) =>
        /\ resp.status = 200
        /\ resp.body = Positions(req.skip, req.skip + req.limit - 1)
        /\ OnlyOwnItems

\* C16 for a skip and a limit that are not negative
C16_ItemsPageNonNegative ==
    (req.op = "read_items" /\ Authenticated /\ req.skip >= 0 /\ req.limit >= 0) =>
        /\ resp.status = 200
        /\ resp.body = Positions(req.skip, req.skip + req.limit - 1)
        /\ OnlyOwnItems

\* no list holds an item of another owner
C16_OnlyOwnItems ==
    (req.op = "read_items" /\ Authenticated) => resp.status = 200 /\ OnlyOwnItems

(***************************************************************************)
(* C17: a request to a protected endpoint that carries no Authorization    *)
(* header is answered 403 by the security scheme; the handler does not     *)
(* run: the response has no body and the tables are as they were.          *)
(***************************************************************************)
C17_NoHeaderForbidden ==
    (Protected /\ req.credentials = NoCredentials) =>
        /\ resp.status = 403
        /\ resp.detail = "Not authenticated"
        /\ resp.body = None
        /\ TablesUnchanged

\* GET /users/me without the header
C17_Witness ==
    /\ req.op = "read_current_user"
    /\ req.credentials = NoCredentials
    /\ resp.status = 403

(***************************************************************************)
(* C18: every request is answered; a storage integrity violation that no   *)
(* endpoint handles is answered 400 and every other uncaught exception 500 *)
(* with a fixed detail, so that the detail of every response is one of the *)
(* messages the application's code spells out, never the text of an        *)
(* exception raised inside it.                                             *)
(***************************************************************************)
WrittenDetails ==
    {"", "Email already registered", "Username already taken",
     "Incorrect username or password", "Inactive user",
     "Could not validate credentials", "Not authenticated", "Not enough privileges",
     "User not found", "Cannot delete yourself", "Item not found",
     "Database constraint violation", "Database error occurred", "Internal server error"}

C18_NoInternalErrorText ==
    (req # NoRequest /\ req.op # "create_access_token") =>
        /\ resp.status \in {200, 201, 400, 401, 403, 404, 500}
        /\ resp.status = 500 =>
               resp.detail \in {"Database error occurred", "Internal server error"}
        /\ resp.detail \in WrittenDetails

(***************************************************************************)
(* C19: the tables change only in a request whose endpoint commits and     *)
(* that is answered with success; a request answered 400, 401, 403 or 404  *)
(* (or any other error) leaves users and items exactly as they were.       *)
(***************************************************************************)
Committing ==
    {"register", "update_current_user", "delete_user", "create_item", "update_item",
     "delete_item"}

C19_ErrorsLeaveTables ==
    (req # NoRequest /\ req.op # "create_access_token") =>
        /\ resp.status \notin {200, 201} => TablesUnchanged
        /\ ~TablesUnchanged => req.op \in Committing

\* an update whose flush failed on the unique email: answered 400 by the
\* integrity handler, nothing of it stored
C19_Witness ==
    /\ req.op = "update_current_user"
    /\ Authenticated
    /\ "email" \in DOMAIN req.body
    /\ req.body.email # pre.users[Caller.user_id].email
    /\ resp.status = 400
    /\ resp.detail = "Database constraint violation"
    /\ TablesUnchanged

(***************************************************************************)
(* C20: for every address and every time t, at most max_requests of the    *)
(* requests of that address that were passed on to the handler arrived in  *)
(* the window (t - window_seconds, t]; a request that arrives when         *)
(* max_requests requests of its address that were passed on are still in   *)
(* the window is answered 429 with a Retry-After header and is not passed  *)
(* on, and any other request is passed on.                                 *)
(***************************************************************************)
Window == WindowSeconds * TicksPerSecond

\* how many of the arrival times lie in the window that ends at t
InWindowAt(times, t) ==
    Cardinality({k \in DOMAIN times : t - Window < times[k] /\ times[k] <= t})

C20_RateLimit ==
    /\ \A a \in Addresses : \A t \in 0..(MaxExtraTicks + Window) :
           InWindowAt(handled[a], t) <= MaxRequests
    /\ req.op = "dispatch" =>
           IF InWindowAt(pre.handled[req.client], pre.now) >= MaxRequests
           THEN /\ resp.status = 429
                /\ \E h \in resp.headers : h[1] = "Retry-After"
                /\ handled = pre.handled
           ELSE /\ resp.status # 429
                /\ handled = [pre.handled EXCEPT ![req.client] = Append(@, pre.now)]

\* a request was refused while another address was still served
C20_Witness ==
    /\ req.op = "dispatch"
    /\ resp.status = 429
    /\ resp.headers = {<<"Retry-After", ToString(WindowSeconds)>>}
    /\ \E a \in Addresses : a # req.client /\ Len(handled[a]) < MaxRequests
    /\ Len(handled[req.client]) > MaxRequests

(***************************************************************************)
(* C24: a request answered 429 is not recorded in the history of its       *)
(* address, which holds only arrival times of requests that were passed    *)
(* on; a request is passed on exactly when fewer than max_requests of the  *)
(* requests of its address passed on before it are younger than            *)
(* window_seconds, however many were refused in between; so a request      *)
(* that arrives when the oldest of the last max_requests passed on is      *)
(* window_seconds old, or older, is passed on.                             *)
(***************************************************************************)
\* the last n entries of a sequence
Last(s, n) == SubSeq(s, Len(s) - n + 1, Len(s))

\* how many of the arrival times are younger than the window at time t
Younger(times, t) == Cardinality({k \in DOMAIN times : t - times[k] < Window})

C24_RefusalsNotRecorded ==
    /\ \A a \in DOMAIN requests :
           /\ Len(requests[a]) <= Len(handled[a])
           /\ requests[a] = Last(handled[a], Len(requests[a]))
    /\ req.op = "dispatch" =>
           LET before == pre.handled[req.client]
           IN  /\ resp.status # 429 <=> Younger(before, pre.now) < MaxRequests
               /\ resp.status = 429 => requests[req.client] = Last(before, MaxRequests)
               /\ ( /\ Len(before) >= MaxRequests
                    /\ pre.now - before[Len(before) - MaxRequests + 1] >= Window )
                  => resp.status # 429

\* an address that was refused, the last time less than a window ago, is
\* passed on at the moment its oldest counted request is a window old
C24_Witness ==
    /\ req.op = "dispatch"
    /\ resp.status # 429
    /\ Len(pre.handled[req.client]) >= MaxRequests
    /\ pre.now - pre.handled[req.client][Len(pre.handled[req.client]) - MaxRequests + 1] = Window
    /\ refused[req.client] >= 0
    /\ pre.now - refused[req.client] < Window

(***************************************************************************)
(* C23: no request changes the is_superuser flag of a stored user, and no  *)
(* request stores a new user whose is_superuser is true, whatever the      *)
(* body of a registration or of a PUT /users/me names.                     *)
(***************************************************************************)
C23_SuperuserFlagFixed ==
    [][\A id \in DOMAIN users' :
           IF id \in DOMAIN users
           THEN users'[id].is_superuser = users[id].is_superuser
           ELSE ~users'[id].is_superuser]_vars

\* a user who is no superuser asked for the flag, and the rest of the
\* update was written
C23_Witness ==
    /\ req.op = "update_current_user"
    /\ "is_superuser" \in DOMAIN req.body
    /\ req.body.is_superuser
    /\ resp.status = 200
    /\ ~pre.users[Caller.user_id].is_superuser
    /\ users[Caller.user_id].full_name # pre.users[Caller.user_id].full_name
    /\ ~users[Caller.user_id].is_superuser

(***************************************************************************)
(* C21: whatever the order in which registrations and PUT /users/me        *)
(* updates of email or username run, one of them waiting behind its        *)
(* checks while another is served, no two stored users share an email and  *)
(* no two share a username; a request that runs to its write when another  *)
(* user holds the email or the username it asks for is answered 400 and    *)
(* leaves the tables as they were.                                         *)
(***************************************************************************)
\* the stored users other than `self` that hold this value in this column
Holders(table, c, value, self) ==
    {i \in DOMAIN table : i # self /\ table[i][c] = value}

\* the request being answered asked for a value another user held
WouldDuplicate ==
    /\ req.op \in {"update_current_user", "register"}
    /\ req.op = "update_current_user" => Authenticated
    /\ \E c \in {"email", "username"} :
           /\ c \in DOMAIN req.body
           /\ Holders(pre.users, c, req.body[c],
                      IF req.op = "register" THEN 0 ELSE Caller.user_id) # {}

C21_UniqueUnderRaces ==
    /\ \A i, j \in DOMAIN users :
           i # j => /\ users[i].email # users[j].email
                    /\ users[i].username # users[j].username
    /\ WouldDuplicate =>
           /\ resp.status = 400
           /\ users = pre.users
           /\ items = pre.items

\* the value was free when the request passed its checks and was taken
\* while it waited
C21_Witness ==
    /\ WouldDuplicate
    /\ "seen" \in DOMAIN req
    /\ req.op = "update_current_user"
    /\ \E c \in {"email", "username"} :
           /\ c \in DOMAIN req.body
           /\ Holders(req.seen.users, c, req.body[c], Caller.user_id) = {}
           /\ Holders(pre.users, c, req.body[c], Caller.user_id) # {}
    /\ resp.status = 400
    /\ resp.detail = "Database constraint violation"

(***************************************************************************)
(* C22: a PUT /items/{id} that passed the endpoint's privilege check, the  *)
(* item being deleted by another request before the service looks it up,   *)
(* is answered 404, or 200 with the updated item; never 500 and never a    *)
(* success without the item.                                               *)
(***************************************************************************)
\* the request being answered is an update whose item went while it waited
DeletedMeanwhile ==
    /\ req.op = "update_item"
    /\ "seen" \in DOMAIN req
    /\ req.id \in DOMAIN req.seen.items
    /\ req.id \notin DOMAIN pre.items

C22_RacedUpdateWellFormed ==
    DeletedMeanwhile =>
        \/ resp.status = 404
        \/ resp.status = 200 /\ resp.body # None /\ resp.body.id = req.id

====
